---- MODULE Spec2Model ----
(***************************************************************************)
(* HyperStorage6D codec workers: the compress worker, the decompress       *)
(* worker and the CRC they share, as a state machine.  One action per      *)
(* worker message handler; each action models the whole handler.           *)
(*                                                                         *)
(* Bytes are 0..255.  A block of bytes (a Uint8Array) is kept run-length   *)
(* coded as [head, fill, n]: the bytes of head followed by n copies of     *)
(* fill, so that blocks of 100, 10000 or 50 MiB + 1 bytes are ordinary     *)
(* values.  Offsets are 0-based as in the source.                          *)
(*                                                                         *)
(* The transform and entropy engines (bwt-engine.js, huffman-engine.js)    *)
(* and isStructuredText are imported by the workers but are not part of    *)
(* the sources; they are modelled from the specification as an exact       *)
(* inverse pair whose output sizes and failures the environment chooses.   *)
(***************************************************************************)
EXTENDS Integers, Sequences, FiniteSets, TLC

(***************************************************************************)
(* 32-bit arithmetic.  An unsigned 32-bit value is the pair <<hi, lo>> of  *)
(* its 16-bit halves.                                                      *)
(***************************************************************************)
RECURSIVE XorBits(_, _, _)
XorBits(a, b, k) ==
  IF k = 0 THEN 0
  ELSE (((a % 2) + (b % 2)) % 2) + 2 * XorBits(a \div 2, b \div 2, k - 1)

\* a ^ b
Xor32(a, b) == << XorBits(a[1], b[1], 16), XorBits(a[2], b[2], 16) >>

\* a & 0xFF
Low8(a) == a[2] % 256

\* a >>> 8 and a >>> 1
Shr8(a) == << a[1] \div 256, (a[2] \div 256) + 256 * (a[1] % 256) >>
Shr1(a) == << a[1] \div 2, (a[2] \div 2) + 32768 * (a[1] % 2) >>

\* a byte, or a length below 2^31, as a 32-bit value, and back
Word(v) == << v \div 65536, v % 65536 >>
WordToInt(w) == w[1] * 65536 + w[2]
AllOnes == << 65535, 65535 >>

\* the four bytes of a 32-bit value, most significant first
WordBytes(w) == << w[1] \div 256, w[1] % 256, w[2] \div 256, w[2] % 256 >>
BytesWord(s) == << s[1] * 256 + s[2], s[3] * 256 + s[4] >>

(***************************************************************************)
(* Blocks of bytes                                                         *)
(***************************************************************************)
Min(a, b) == IF a < b THEN a ELSE b
Max(a, b) == IF a > b THEN a ELSE b

RECURSIVE TrimTail(_, _)
\* the longest prefix of s that does not end with byte f, and how many were cut
TrimTail(s, f) ==
  IF s # << >> /\ s[Len(s)] = f
  THEN LET r == TrimTail(SubSeq(s, 1, Len(s) - 1), f)
       IN  [seq |-> r.seq, cut |-> r.cut + 1]
  ELSE [seq |-> s, cut |-> 0]

\* one representation per byte string
Norm(h, f, n) ==
  IF n = 0 THEN [head |-> h, fill |-> 0, n |-> 0]
  ELSE LET t == TrimTail(h, f)
       IN  [head |-> t.seq, fill |-> f, n |-> n + t.cut]

Bytes(s) == Norm(s, 0, 0)
Run(f, n) == Norm(<< >>, f, n)
EmptyBlock == Bytes(<< >>)

\* data.length
BLen(b) == Len(b.head) + b.n

\* data[i], 0 <= i < data.length
At(b, i) == IF i < Len(b.head) THEN b.head[i + 1] ELSE b.fill

\* data.slice(lo, hi), 0 <= lo; hi is clamped to the length as slice does
Slice(b, lo, hi) ==
  LET h  == Min(hi, BLen(b))
      l  == Min(lo, h)
      hh == SubSeq(b.head, l + 1, Min(h, Len(b.head)))
      nn == Max(0, h - Max(l, Len(b.head)))
  IN  Norm(hh, b.fill, nn)

\* the bytes of a short block as an explicit sequence
Explicit(b) == [i \in 1..BLen(b) |-> At(b, i - 1)]

\* a followed by b (Uint8Array.set at offset a.length of a fresh array)
Concat(a, b) ==
  IF a.n = 0 THEN Norm(a.head \o b.head, b.fill, b.n)
  ELSE IF BLen(b) = 0 THEN a
  ELSE Norm(Explicit(a) \o b.head, b.fill, b.n)

(***************************************************************************)
(* utils.js: CRC-32                                                        *)
(***************************************************************************)
CRC_POLY == << 60856, 33568 >>   \* 0xEDB88320

RECURSIVE CrcTableEntry(_, _)
CrcTableEntry(c, k) ==
  IF k = 0 THEN c
  ELSE CrcTableEntry(IF c[2] % 2 = 1 THEN Xor32(CRC_POLY, Shr1(c)) ELSE Shr1(c), k - 1)

CRC32_TABLE == [n \in 0..255 |-> CrcTableEntry(Word(n), 8)]

CrcStep(crc, byte) == Xor32(CRC32_TABLE[Low8(Xor32(crc, Word(byte)))], Shr8(crc))

RECURSIVE CrcSeq(_, _, _)
CrcSeq(crc, s, i) ==
  IF i > Len(s) THEN crc ELSE CrcSeq(CrcStep(crc, s[i]), s, i + 1)

RECURSIVE CrcRun(_, _, _)
CrcRun(crc, f, n) ==
  IF n = 0 THEN crc ELSE CrcRun(CrcStep(crc, f), f, n - 1)

crc32(data) ==
  IF BLen(data) = 0 THEN Word(0)
  ELSE Xor32(CrcRun(CrcSeq(AllOnes, data.head, 1), data.fill, data.n), AllOnes)

(***************************************************************************)
(* DataView over a byte buffer (an explicit sequence of bytes).  An access *)
(* that does not fit the buffer throws a RangeError.                       *)
(***************************************************************************)
InBounds(buf, off, width) == off + width <= Len(buf)

\* view.setUint32(off, w), big-endian
setUint32(buf, off, w) ==
  IF ~InBounds(buf, off, 4) THEN [threw |-> TRUE, buf |-> buf]
  ELSE [threw |-> FALSE,
        buf |-> [i \in 1..Len(buf) |->
                   IF i - 1 >= off /\ i - 1 < off + 4
                   THEN WordBytes(w)[i - off] ELSE buf[i]]]

\* view.setUint8(off, v)
setUint8(buf, off, v) ==
  IF ~InBounds(buf, off, 1) THEN [threw |-> TRUE, buf |-> buf]
  ELSE [threw |-> FALSE, buf |-> [buf EXCEPT ![off + 1] = v]]

\* view.getUint32(off), big-endian
getUint32(buf, off) ==
  IF ~InBounds(buf, off, 4) THEN [threw |-> TRUE, value |-> Word(0)]
  ELSE [threw |-> FALSE, value |-> BytesWord(SubSeq(buf, off + 1, off + 4))]

\* view.getUint8(off)
getUint8(buf, off) ==
  IF ~InBounds(buf, off, 1) THEN [threw |-> TRUE, value |-> 0]
  ELSE [threw |-> FALSE, value |-> buf[off + 1]]

\* one entry of the log of header accesses
Access(op, off, width, cap) == [op |-> op, off |-> off, width |-> width, cap |-> cap]

(***************************************************************************)
(* Messages the workers post                                               *)
(***************************************************************************)
\* a progress report that counts down what is left instead of what is done
reportProgress_Remaining(p) == [type |-> "progress", progress |-> 100 - p]

\* reportProgress(progress, stage); progress is kept in hundredths
reportProgress(p) == [type |-> "progress", progress |-> p]

IsProgress(m) == "type" \in DOMAIN m /\ m.type = "progress"
IsComplete(m) == "type" \in DOMAIN m /\ m.type = "complete"
IsError(m)    == "error" \in DOMAIN m
IsTerminal(m) == IsComplete(m) \/ IsError(m)

(***************************************************************************)
(* Program constants                                                       *)
(***************************************************************************)
MAGIC == << 18515, 13892 >>            \* 0x48533644, 'HS6D'
MAX_MOBILE_SIZE == 52428800            \* 50 * 1024 * 1024
COMPRESS_HEADER_SIZE == 12             \* new Uint8Array(12)
DECOMPRESS_HEADER_SIZE == 12           \* data.slice(0, 12), data.slice(12)
SAMPLE_SIZE == 10000
MIN_SAME_LENGTH == 100

(***************************************************************************)
(* compress-worker.js: the classifier                                      *)
(***************************************************************************)
IsTextByte(byte) ==
  (byte >= 32 /\ byte <= 126) \/ byte = 9 \/ byte = 10 \/ byte = 13

\* a count that runs over the whole block instead of the sample
TextChars_WholeBlock(data, k) ==
  Cardinality({i \in 1..Len(data.head) : IsTextByte(data.head[i])})
  + (IF data.n > 0 /\ IsTextByte(data.fill) THEN data.n ELSE 0)

\* how many of the first k bytes of data are text bytes
TextChars(data, k) ==
  LET inHead == Min(k, Len(data.head))
      inFill == k - inHead
  IN  Cardinality({i \in 1..inHead : IsTextByte(data.head[i])})
      + (IF inFill > 0 /\ IsTextByte(data.fill) THEN inFill ELSE 0)

\* textChars / sampleSize > 0.85; 0 / 0 is NaN and NaN > 0.85 is false
TextRatioHigh(textChars, sampleSize) == 20 * textChars > 17 * sampleSize

\* structured is the answer of isStructuredText(data)
shouldUseBWT(data, structured) ==
  IF structured THEN TRUE
  ELSE LET sampleSize == Min(BLen(data), SAMPLE_SIZE)
       IN  TextRatioHigh(TextChars(data, sampleSize), sampleSize)

isAllSame(data) ==
  IF BLen(data) < MIN_SAME_LENGTH THEN FALSE
  ELSE /\ \A i \in 1..Len(data.head) : data.head[i] = At(data, 0)
       /\ (data.n > 0 => data.fill = At(data, 0))

\* compressedData.length / data.length > 0.95; x / 0 is Infinity for x > 0
\* and NaN for x = 0, and NaN > 0.95 is false
RatioExceeds(compressedLength, dataLength) ==
  IF dataLength = 0 THEN compressedLength > 0
  ELSE 20 * compressedLength > 19 * dataLength

(***************************************************************************)
(* The engines, from the specification: process / inverse and encode /     *)
(* decode are exact inverse pairs.  What process returns is kept as the    *)
(* token Transformed(data); the bytes encode returns are chosen by the     *)
(* environment among streams of several lengths.                           *)
(***************************************************************************)
Transformed(data) == [transformOf |-> data]
IsTransformed(v) == "transformOf" \in DOMAIN v
InverseOf(v) == v.transformOf

\* the lengths the encoded stream of a source of sourceLength bytes may have:
\* empty for the empty source, else short, exactly 95%, equal and longer
EncLens(sourceLength) ==
  IF sourceLength = 0 THEN {0}
  ELSE {1, (19 * sourceLength) \div 20, sourceLength, sourceLength + 1} \ {0}

EncStreams(sourceLength) == {Run(170, k) : k \in EncLens(sourceLength)}

Faults == {"none", "bwt", "huffman"}

(***************************************************************************)
(* compress-worker.js: self.onmessage                                      *)
(***************************************************************************)
\* the catch block that swallows the error instead of reporting it
CompressOnCatch_Silent(kind, fileName) == << >>

\* the catch block of the handler
CompressOnCatch(kind, fileName) == << [error |-> kind, fileName |-> fileName] >>

\* the encoding stage: transform and entropy coding, or entropy coding alone
CompressEncode(data, useBWT, env) ==
  IF useBWT THEN
    IF env.fault = "bwt" THEN
      [threw |-> TRUE, error |-> "StructuredFailed",
       msgs |-> << reportProgress(20) >>, calls |-> << "bwt.process" >>,
       isSpecialCase |-> FALSE, source |-> data, compressedData |-> EmptyBlock]
    ELSE IF env.fault = "huffman" THEN
      [threw |-> TRUE, error |-> "StructuredFailed",
       msgs |-> << reportProgress(20), reportProgress(40) >>,
       calls |-> << "bwt.process", "huffman.encode" >>,
       isSpecialCase |-> FALSE, source |-> data, compressedData |-> EmptyBlock]
    ELSE
      [threw |-> FALSE, error |-> "",
       msgs |-> << reportProgress(20), reportProgress(40) >>,
       calls |-> << "bwt.process", "huffman.encode" >>,
       isSpecialCase |-> FALSE, source |-> Transformed(data),
       compressedData |-> env.stream]
  ELSE IF isAllSame(data) THEN
    IF env.fault = "huffman" THEN
      [threw |-> TRUE, error |-> "EngineError",
       msgs |-> << reportProgress(20), reportProgress(30) >>,
       calls |-> << "isAllSame", "huffman.encode" >>,
       isSpecialCase |-> TRUE, source |-> data, compressedData |-> EmptyBlock]
    ELSE
      [threw |-> FALSE, error |-> "",
       msgs |-> << reportProgress(20), reportProgress(30) >>,
       calls |-> << "isAllSame", "huffman.encode" >>,
       isSpecialCase |-> TRUE, source |-> data, compressedData |-> env.stream]
  ELSE
    IF env.fault = "huffman" THEN
      [threw |-> TRUE, error |-> "BinaryFailed",
       msgs |-> << reportProgress(20) >>,
       calls |-> << "isAllSame", "huffman.encode" >>,
       isSpecialCase |-> FALSE, source |-> data, compressedData |-> EmptyBlock]
    ELSE
      [threw |-> FALSE, error |-> "",
       msgs |-> << reportProgress(20) >>,
       calls |-> << "isAllSame", "huffman.encode" >>,
       isSpecialCase |-> FALSE, source |-> data, compressedData |-> env.stream]

\* flags |= 1, 2, 4
CompressFlags(useBWT, isSpecialCase, isUncompressed) ==
  (IF useBWT THEN 1 ELSE 0) + (IF isSpecialCase THEN 2 ELSE 0)
  + (IF isUncompressed THEN 4 ELSE 0)

\* a header access threw: the accesses and calls made so far
PackThrew(hdr, calls) ==
  [threw |-> TRUE, calls |-> calls, hdr |-> hdr, finalOutput |-> EmptyBlock]

\* the header and the final output
CompressPack(data, compressedData, flags) ==
  LET cap    == COMPRESS_HEADER_SIZE
      header == [i \in 1..cap |-> 0]
      w1     == setUint32(header, 0, MAGIC)
      w2     == setUint32(w1.buf, 4, Word(BLen(data)))
      w3     == setUint8(w2.buf, 8, flags)
      w4     == setUint32(w3.buf, 9, crc32(compressedData))
      a1     == Access("setUint32", 0, 4, cap)
      a2     == Access("setUint32", 4, 4, cap)
      a3     == Access("setUint8", 8, 1, cap)
      a4     == Access("setUint32", 9, 4, cap)
  IN  IF w1.threw THEN PackThrew(<< a1 >>, << >>)
      ELSE IF w2.threw THEN PackThrew(<< a1, a2 >>, << >>)
      ELSE IF w3.threw THEN PackThrew(<< a1, a2, a3 >>, << >>)
      ELSE IF ~InBounds(w3.buf, 9, 4)
           THEN PackThrew(<< a1, a2, a3, a4 >>, << "crc32" >>)
      ELSE [threw |-> FALSE, calls |-> << "crc32" >>,
            hdr |-> << a1, a2, a3, a4 >>,
            finalOutput |-> Concat(Bytes(w4.buf), compressedData)]

NoLocals ==
  [reached |-> FALSE, useBWT |-> FALSE, isSpecialCase |-> FALSE,
   isUncompressed |-> FALSE, flags |-> 0, encodedLength |-> 0,
   source |-> EmptyBlock, encoded |-> EmptyBlock, compressedData |-> EmptyBlock]

\* the whole handler: the messages it posts, in order, the calls it makes,
\* its header accesses and its locals when it reaches the packing stage
CompressRun(req, env) ==
  LET data == req.data IN
  IF req.fileSize > MAX_MOBILE_SIZE THEN
    [msgs |-> << [error |-> "TooLarge"] >>, calls |-> << >>, hdr |-> << >>,
     locals |-> NoLocals]
  ELSE
    LET useBWT == shouldUseBWT(data, req.structured)
        enc    == CompressEncode(data, useBWT, env)
        m1     == << reportProgress(5) >> \o enc.msgs
        c1     == << "shouldUseBWT" >> \o enc.calls
    IN
    IF enc.threw THEN
      [msgs |-> m1 \o CompressOnCatch(enc.error, req.fileName),
       calls |-> c1, hdr |-> << >>, locals |-> NoLocals]
    ELSE
      LET encodedLength  == BLen(enc.compressedData)
          isUncompressed == RatioExceeds(encodedLength, BLen(data))
          compressedData == IF isUncompressed THEN data ELSE enc.compressedData
          m2     == m1 \o (IF isUncompressed THEN << reportProgress(60) >> ELSE << >>)
                       \o << reportProgress(85) >>
          flags  == CompressFlags(useBWT, enc.isSpecialCase, isUncompressed)
          pack   == CompressPack(data, compressedData, flags)
          locals == [reached |-> TRUE, useBWT |-> useBWT,
                     isSpecialCase |-> enc.isSpecialCase,
                     isUncompressed |-> isUncompressed, flags |-> flags,
                     encodedLength |-> encodedLength,
                     source |-> enc.source, encoded |-> enc.compressedData,
                     compressedData |-> compressedData]
      IN
      IF pack.threw THEN
        [msgs |-> m2 \o CompressOnCatch("RangeError", req.fileName),
         calls |-> c1 \o pack.calls, hdr |-> pack.hdr, locals |-> locals]
      ELSE
        [msgs |-> m2 \o << reportProgress(100),
                           [type |-> "complete",
                            compressed |-> pack.finalOutput,
                            originalSize |-> BLen(data),
                            compressedSize |-> BLen(pack.finalOutput),
                            fileName |-> req.fileName,
                            compressionRatio |-> << encodedLength, BLen(data) >>] >>,
         calls |-> c1 \o pack.calls, hdr |-> pack.hdr, locals |-> locals]

(***************************************************************************)
(* decompress-worker.js: self.onmessage                                    *)
(***************************************************************************)
\* the catch block of the handler
DecompressOnCatch(kind, fileName) == << [error |-> kind, fileName |-> fileName] >>

\* the handler without its integrity check: the stored checksum is neither
\* read nor compared
DecompressIntegrity_Skipped(data, header) ==
  [threw |-> FALSE, error |-> "", msgs |-> << reportProgress(20) >>,
   calls |-> << >>,
   compressedData |-> Slice(data, DECOMPRESS_HEADER_SIZE, BLen(data))]

\* reading the stored checksum and verifying it over the bytes after the
\* header; header is the slice the DataView reads
DecompressIntegrity(data, header) ==
  LET stored == getUint32(header, 9) IN
  IF stored.threw THEN
    [threw |-> TRUE, error |-> "RangeError", msgs |-> << >>, calls |-> << >>,
     compressedData |-> EmptyBlock]
  ELSE
    LET compressedData == Slice(data, DECOMPRESS_HEADER_SIZE, BLen(data)) IN
    IF crc32(compressedData) # stored.value THEN
      [threw |-> TRUE, error |-> "ChecksumMismatch",
       msgs |-> << reportProgress(20) >>, calls |-> << "crc32" >>,
       compressedData |-> compressedData]
    ELSE
      [threw |-> FALSE, error |-> "",
       msgs |-> << reportProgress(20) >>, calls |-> << "crc32" >>,
       compressedData |-> compressedData]

\* what huffmanEncoder.decode returns: the source of the stream when memo
\* knows the stream (decode inverts encode), else what the environment says
DecodeOutcome(compressedData, env, memo) ==
  IF memo.known /\ memo.encoded = compressedData
  THEN [threw |-> FALSE, value |-> memo.source]
  ELSE env.dec

\* what bwtProcessor.inverse returns
InverseOutcome(huffmanData, env) ==
  IF IsTransformed(huffmanData)
  THEN [threw |-> FALSE, value |-> InverseOf(huffmanData)]
  ELSE env.inv

\* the branch on the flags: raw, or entropy decoding and the inverse transform
DecompressDecode(compressedData, flags, env, memo) ==
  LET usedBWT        == (flags % 2) = 1
      isUncompressed == ((flags \div 4) % 2) = 1
  IN
  IF isUncompressed THEN
    [threw |-> FALSE, error |-> "", msgs |-> << reportProgress(80) >>,
     calls |-> << >>, originalData |-> compressedData]
  ELSE
    LET dec == DecodeOutcome(compressedData, env, memo) IN
    IF dec.threw THEN
      [threw |-> TRUE, error |-> "InvalidCodeTable",
       msgs |-> << reportProgress(40) >>, calls |-> << "huffman.decode" >>,
       originalData |-> EmptyBlock]
    ELSE IF usedBWT THEN
      LET inv == InverseOutcome(dec.value, env) IN
      IF inv.threw THEN
        [threw |-> TRUE, error |-> "CorruptTransform",
         msgs |-> << reportProgress(40), reportProgress(70) >>,
         calls |-> << "huffman.decode", "bwt.inverse" >>,
         originalData |-> EmptyBlock]
      ELSE
        [threw |-> FALSE, error |-> "",
         msgs |-> << reportProgress(40), reportProgress(70) >>,
         calls |-> << "huffman.decode", "bwt.inverse" >>,
         originalData |-> inv.value]
    ELSE
      [threw |-> FALSE, error |-> "", msgs |-> << reportProgress(40) >>,
       calls |-> << "huffman.decode" >>,
       \* the bytes of a transform result that is not inverted are the
       \* engine's own layout: some block
       originalData |-> IF IsTransformed(dec.value) THEN env.inv.value
                        ELSE dec.value]

\* the repeated-byte case and the size check
DecompressFinish(originalData, flags, originalSize) ==
  LET isSpecialCase == ((flags \div 2) % 2) = 1
      repeated == IF isSpecialCase /\ BLen(originalData) = 1 /\ originalSize > 1
                  THEN Run(At(originalData, 0), originalSize)
                  ELSE originalData
  IN  IF BLen(repeated) # originalSize /\ BLen(repeated) > originalSize
      THEN Slice(repeated, 0, originalSize)
      ELSE repeated

\* the 'complete' message of the handler
DecompressComplete(data, originalData, fileName) ==
  [type |-> "complete", decompressed |-> originalData,
   compressedSize |-> BLen(data), originalSize |-> BLen(originalData),
   fileName |-> fileName]

\* a magic check that accepts every value
MagicMatches_Any(value) == TRUE

\* view.getUint32(0) === 0x48533644
MagicMatches(value) == value = MAGIC

\* the whole handler
DecompressRun(req, env, memo) ==
  LET data == req.data
      m0   == << reportProgress(5) >>
  IN
  IF BLen(data) < DECOMPRESS_HEADER_SIZE THEN
    [msgs |-> m0 \o DecompressOnCatch("TooShort", req.fileName),
     calls |-> << >>, hdr |-> << >>]
  ELSE
    LET header == Explicit(Slice(data, 0, DECOMPRESS_HEADER_SIZE))
        cap    == Len(header)
        a0     == Access("getUint32", 0, 4, cap)
        a4     == Access("getUint32", 4, 4, cap)
        a8     == Access("getUint8", 8, 1, cap)
        a9     == Access("getUint32", 9, 4, cap)
        magic  == getUint32(header, 0)
    IN
    IF magic.threw THEN
      [msgs |-> m0 \o DecompressOnCatch("RangeError", req.fileName),
       calls |-> << >>, hdr |-> << a0 >>]
    ELSE IF ~MagicMatches(magic.value) THEN
      [msgs |-> m0 \o DecompressOnCatch("BadMagic", req.fileName),
       calls |-> << >>, hdr |-> << a0 >>]
    ELSE
      LET size  == getUint32(header, 4)
          flg   == getUint8(header, 8)
      IN
      IF size.threw THEN
        [msgs |-> m0 \o DecompressOnCatch("RangeError", req.fileName),
         calls |-> << >>, hdr |-> << a0, a4 >>]
      ELSE IF flg.threw THEN
        [msgs |-> m0 \o DecompressOnCatch("RangeError", req.fileName),
         calls |-> << >>, hdr |-> << a0, a4, a8 >>]
      ELSE
        LET integ == DecompressIntegrity(data, header)
            h     == << a0, a4, a8, a9 >>
        IN
        IF integ.threw THEN
          [msgs |-> m0 \o integ.msgs \o DecompressOnCatch(integ.error, req.fileName),
           calls |-> integ.calls, hdr |-> h]
        ELSE
          LET dec == DecompressDecode(integ.compressedData, flg.value, env, memo) IN
          IF dec.threw THEN
            [msgs |-> m0 \o integ.msgs \o dec.msgs
                        \o DecompressOnCatch(dec.error, req.fileName),
             calls |-> integ.calls \o dec.calls, hdr |-> h]
          ELSE
            LET originalData ==
                  DecompressFinish(dec.originalData, flg.value, WordToInt(size.value))
            IN
            [msgs |-> m0 \o integ.msgs \o dec.msgs
                        \o << reportProgress(100),
                              DecompressComplete(data, originalData, req.fileName) >>,
             calls |-> integ.calls \o dec.calls, hdr |-> h]

(***************************************************************************)
(* Inputs                                                                  *)
(***************************************************************************)
MaxHead == 1       \* explicit bytes at the start of a block to compress
MaxPayload == 2    \* payload bytes of a container file

RECURSIVE SeqsUpTo(_, _)
SeqsUpTo(S, k) ==
  IF k = 0 THEN {<< >>}
  ELSE LET shorter == SeqsUpTo(S, k - 1)
       IN  shorter \cup {Append(t, e) : t \in {u \in shorter : Len(u) = k - 1}, e \in S}

\* blocks to compress: a few explicit bytes followed by nothing, by 99, 100 or
\* 10000 equal bytes, or by one byte more than the size ceiling
RunShapes ==
  { << 0, 0 >>, << 65, SAMPLE_SIZE >>, << 0, MIN_SAME_LENGTH >>,
    << 65, MIN_SAME_LENGTH >>, << 65, MIN_SAME_LENGTH - 1 >>,
    << 0, MAX_MOBILE_SIZE + 1 >> }

CompressBlocks ==
  {Norm(h, r[1], r[2]) : h \in SeqsUpTo({0, 65}, MaxHead), r \in RunShapes}

\* the fileSize field of a request: the true length, or a caller that
\* declares nothing, or too much
DeclaredSizes(data) == {BLen(data), 0, MAX_MOBILE_SIZE + 1}

CompressNames == {"datos.csv"}
DecompressNames == {"datos.hs6d"}

\* a container file with a 13-byte header: magic, originalSize, flags,
\* checksum, then the payload
MakeContainer(magic, size, flags, checksum, payload) ==
  Concat(Bytes(WordBytes(magic) \o WordBytes(Word(size)) \o << flags >>
               \o WordBytes(checksum)),
         payload)

PayloadText == << 65, 200, 10, 0 >>
ContainerPayloads == {Bytes(SubSeq(PayloadText, 1, k)) : k \in 0..MaxPayload}
ContainerFlags == 0..7
StoredSizes(p) == {BLen(p), BLen(p) + 1} \cup (IF BLen(p) > 0 THEN {BLen(p) - 1} ELSE {})

\* the header of the container format: magic, originalSize, flags, checksum
CONTAINER_HEADER == 4 + 4 + 1 + 4

\* containers whose stored checksum is the CRC of their payload
ValidContainers ==
  UNION { {MakeContainer(MAGIC, size, f, crc32(p), p) :
             size \in StoredSizes(p), f \in ContainerFlags} :
          p \in ContainerPayloads }

\* those that store the length of their raw payload, as a compressor that
\* falls back to raw storage writes them
CleanContainers ==
  { MakeContainer(MAGIC, BLen(p), f, crc32(p), p) :
      f \in ContainerFlags, p \in ContainerPayloads }

\* the block with bit number bit of the byte at offset off inverted
FlipBit(b, off, bit) ==
  LET s    == Explicit(b)
      mask == IF bit = 0 THEN 1 ELSE IF bit = 1 THEN 2 ELSE IF bit = 2 THEN 4
              ELSE IF bit = 3 THEN 8 ELSE IF bit = 4 THEN 16
              ELSE IF bit = 5 THEN 32 ELSE IF bit = 6 THEN 64 ELSE 128
  IN  Bytes([s EXCEPT ![off + 1] = XorBits(@, mask, 8)])

\* a clean container with one bit of its payload flipped
PayloadFlipped ==
  UNION { {FlipBit(c, off, bit) :
             off \in CONTAINER_HEADER..(BLen(c) - 1), bit \in 0..7} :
          c \in CleanContainers }

\* a clean container with one bit of one checksum byte flipped
ChecksumCorrupted ==
  UNION { {FlipBit(c, off, 0) : off \in 9..12} : c \in CleanContainers }

\* files that are no container: too short, exactly twelve bytes, wrong magic
MagicBytes == WordBytes(MAGIC)
ShortFiles ==
  { EmptyBlock, Bytes(<< 72 >>), Bytes(MagicBytes), Norm(MagicBytes, 0, 7),
    Norm(MagicBytes, 0, 8), Run(0, 11) }
WrongMagicFiles ==
  { Run(0, 12), Run(0, 13) }
  \cup {FlipBit(c, 3, 0) : c \in CleanContainers}

FileInputs ==
  ShortFiles \cup WrongMagicFiles \cup ValidContainers \cup PayloadFlipped
  \cup ChecksumCorrupted

\* what an engine may answer for bytes it did not produce
EngineBlocks == { EmptyBlock, Bytes(<< 65, 66 >>) }
EngineOutcomes ==
  { [threw |-> TRUE, value |-> EmptyBlock] }
  \cup { [threw |-> FALSE, value |-> b] : b \in EngineBlocks }

(***************************************************************************)
(* State: the workers keep nothing between two messages; the state is the  *)
(* record of the handler run whose messages the caller has not collected   *)
(* yet.  The caller submits one request at a time: a block, a file, or the *)
(* container it has just been delivered.                                   *)
(***************************************************************************)
VARIABLES
  worker,    \* "none", "compress" or "decompress": whose handler ran last
  request,   \* the message it handled
  posted,    \* the messages it posted, in order
  calls,     \* the classifier, engine and checksum calls it made, in order
  hdr,       \* its header accesses, in order
  locals,    \* compress: the locals at the packing stage
  origin     \* decompress: the block whose container it was given, if known

\* the classifier called by itself
VARIABLES
  sample,    \* the block it was last called with, by its shape
  decision   \* what it returned

\* index-main.js: the page that drives the two workers
VARIABLES
  host,      \* its module variables, its timers, object URLs and page elements
  reading,   \* per direction, the files a FileReader is still reading
  inbox,     \* per direction, the worker's messages not yet handled
  starts     \* how many times a start button was pressed

workerVars == << worker, request, posted, calls, hdr, locals, origin >>
classifierVars == << sample, decision >>
hostVars == << host, reading, inbox, starts >>

vars == << worker, request, posted, calls, hdr, locals, origin, sample, decision,
           host, reading, inbox, starts >>

\* null
NoTimer == 0
NoUrl == 0
NoName == [stem |-> "", ext |-> ""]
NoDownload == [href |-> NoUrl, from |-> NoName, suffix |-> "", shown |-> FALSE]

HostInit ==
  [compressInterval |-> NoTimer, decompressInterval |-> NoTimer,
   compressFileSize |-> 0, currentFileName |-> NoName,
   lastCompressedUrl |-> NoUrl, lastDecompressedUrl |-> NoUrl,
   intervals |-> {}, intervalsSet |-> 0,
   urls |-> {}, urlsCreated |-> 0, revoked |-> << >>,
   percentage |-> [compress |-> 0, decompress |-> 0],
   download |-> [compress |-> NoDownload, decompress |-> NoDownload]]

\* a block to classify: text bytes, then other bytes, then a run of one byte
\* value (tail 65 is text, tail 0 is not)
NoSample == [text |-> 0, other |-> 0, tail |-> 0, tailLength |-> 0,
             structured |-> FALSE, called |-> FALSE]

NoOrigin == [known |-> FALSE, block |-> EmptyBlock]

NoRequest == [data |-> EmptyBlock, fileName |-> "", fileSize |-> 0]

Init ==
  /\ worker = "none"
  /\ request = NoRequest
  /\ posted = << >>
  /\ calls = << >>
  /\ hdr = << >>
  /\ locals = NoLocals
  /\ origin = NoOrigin
  /\ sample = NoSample
  /\ decision = FALSE
  /\ host = HostInit
  /\ reading = [compress |-> << >>, decompress |-> << >>]
  /\ inbox = [compress |-> << >>, decompress |-> << >>]
  /\ starts = 0

\* the compress worker handles one message
CompressOnMessage ==
  \E data \in CompressBlocks, structured \in BOOLEAN, fileName \in CompressNames,
     fault \in Faults :
    \E fileSize \in DeclaredSizes(data), stream \in EncStreams(BLen(data)) :
      LET req == [data |-> data, fileName |-> fileName, fileSize |-> fileSize,
                  structured |-> structured]
          run == CompressRun(req, [fault |-> fault, stream |-> stream])
      IN  /\ worker = "none"
          /\ worker' = "compress"
          /\ request' = req
          /\ posted' = run.msgs
          /\ calls' = run.calls
          /\ hdr' = run.hdr
          /\ locals' = run.locals
          /\ origin' = NoOrigin
          /\ UNCHANGED << classifierVars, hostVars >>

\* the containers the latest compression delivered
Emitted ==
  IF worker = "compress" /\ posted # << >> /\ IsComplete(posted[Len(posted)])
  THEN { posted[Len(posted)].compressed }
  ELSE { }

\* what the entropy coder of the latest compression encoded, and into what
Memo ==
  IF worker = "compress" /\ locals.reached
  THEN [known |-> TRUE, source |-> locals.source, encoded |-> locals.encoded]
  ELSE [known |-> FALSE, source |-> EmptyBlock, encoded |-> EmptyBlock]

\* the decompress worker handles one message: a file, or the container the
\* latest compression delivered
DecompressOnMessage ==
  \E data \in (IF worker = "none" THEN FileInputs ELSE { }) \cup Emitted,
     fileName \in DecompressNames,
     dec \in EngineOutcomes, inv \in EngineOutcomes :
      LET req == [data |-> data, fileName |-> fileName, fileSize |-> BLen(data)]
          run == DecompressRun(req, [dec |-> dec, inv |-> inv], Memo)
      IN  /\ worker' = "decompress"
          /\ request' = req
          /\ posted' = run.msgs
          /\ calls' = run.calls
          /\ hdr' = run.hdr
          /\ locals' = NoLocals
          /\ origin' = IF data \in Emitted
                       THEN [known |-> TRUE, block |-> request.data]
                       ELSE NoOrigin
          /\ UNCHANGED << classifierVars, hostVars >>

\* the caller takes the messages of the run
Collect ==
  /\ worker # "none"
  /\ worker' = "none"
  /\ request' = NoRequest
  /\ posted' = << >>
  /\ calls' = << >>
  /\ hdr' = << >>
  /\ locals' = NoLocals
  /\ origin' = NoOrigin
  /\ UNCHANGED << classifierVars, hostVars >>

Next == CompressOnMessage \/ DecompressOnMessage \/ Collect

Spec == Init /\ [][Next]_vars

(***************************************************************************)
(* The classifier by itself: shouldUseBWT applied to blocks of many        *)
(* shapes, among them blocks longer than the sample.                       *)
(***************************************************************************)
MaxShort == 20     \* the longest explicit part of a short block to classify

TEXT_BYTES == << 66, 9, 10, 13, 32, 126 >>
OTHER_BYTES == << 200, 31, 127, 128 >>

\* the block of a shape
SampleBlock(sh) ==
  LET h == [i \in 1..(sh.text + sh.other) |->
              IF i <= sh.text THEN TEXT_BYTES[(i % Len(TEXT_BYTES)) + 1]
              ELSE OTHER_BYTES[(i % Len(OTHER_BYTES)) + 1]]
  IN  Norm(h, sh.tail, sh.tailLength)

\* explicit parts: short ones, and ones of the sample's length on both sides
\* of 85% text
SampleParts ==
  { << t, o >> \in (0..MaxShort) \X (0..MaxShort) :
      t + o \in {0, 1, 2, MaxShort} }
  \cup { << 17 * (SAMPLE_SIZE \div 20) + d, 3 * (SAMPLE_SIZE \div 20) - d >> :
           d \in {-1, 0, 1} }
  \cup { << 17 * (SAMPLE_SIZE \div 20) + d, 3 * (SAMPLE_SIZE \div 20) - d - 5 >> :
           d \in {-1, 0, 1} }

SampleTails == { << 0, 0 >>, << 65, 5 >>, << 0, 5 >>, << 65, SAMPLE_SIZE >>,
                 << 0, SAMPLE_SIZE >> }

SampleShapes ==
  { [text |-> p[1], other |-> p[2], tail |-> r[1], tailLength |-> r[2],
     structured |-> st, called |-> TRUE] :
      p \in SampleParts, r \in SampleTails, st \in BOOLEAN }

\* one call of the classifier
Classify ==
  \E sh \in SampleShapes :
    /\ ~sample.called
    /\ sample' = sh
    /\ decision' = shouldUseBWT(SampleBlock(sh), sh.structured)
    /\ UNCHANGED << workerVars, hostVars >>

\* the caller has used the decision
Classified ==
  /\ sample.called
  /\ sample' = NoSample
  /\ decision' = FALSE
  /\ UNCHANGED << workerVars, hostVars >>

ClassifierNext == Classify \/ Classified

ClassifierSpec == Init /\ [][ClassifierNext]_vars

(***************************************************************************)
(* index-main.js: progress tracking, object URLs and the message handlers  *)
(***************************************************************************)
clearInterval(h, interval) == [h EXCEPT !.intervals = @ \ {interval}]

stopProgressTracking(h, type) ==
  IF type = "compress" /\ h.compressInterval # NoTimer THEN
    [clearInterval(h, h.compressInterval) EXCEPT !.compressInterval = NoTimer]
  ELSE IF h.decompressInterval # NoTimer THEN
    [clearInterval(h, h.decompressInterval) EXCEPT !.decompressInterval = NoTimer]
  ELSE h

startProgressTracking(h, type) ==
  LET h1       == stopProgressTracking(h, type)
      interval == h1.intervalsSet + 1
      h2       == [h1 EXCEPT !.intervals = @ \cup {interval},
                             !.intervalsSet = interval]
  IN  IF type = "compress" THEN [h2 EXCEPT !.compressInterval = interval]
      ELSE [h2 EXCEPT !.decompressInterval = interval]

\* progress is in hundredths; the page shows Math.round of the clamped value
updateProgress(h, type, progress) ==
  LET percentage == Min(100 * 100, Max(0, progress))
  IN  [h EXCEPT !.percentage[type] = (percentage + 50) \div 100]

revokeObjectURL(h, url) ==
  [h EXCEPT !.urls = @ \ {url}, !.revoked = Append(@, url)]

createObjectURL(h) ==
  [h EXCEPT !.urls = @ \cup {h.urlsCreated + 1}, !.urlsCreated = @ + 1]

\* a reset that revokes the URL and keeps the variable pointing at it
resetProgress_KeepsUrl(h, type) ==
  LET h1 == [h EXCEPT !.percentage[type] = 0, !.download[type].shown = FALSE]
  IN  IF type = "compress" THEN
        IF h1.lastCompressedUrl # NoUrl
        THEN revokeObjectURL(h1, h1.lastCompressedUrl) ELSE h1
      ELSE
        IF h1.lastDecompressedUrl # NoUrl
        THEN revokeObjectURL(h1, h1.lastDecompressedUrl) ELSE h1

resetProgress(h, type) ==
  LET h1 == [h EXCEPT !.percentage[type] = 0, !.download[type].shown = FALSE]
  IN  IF type = "compress" THEN
        IF h1.lastCompressedUrl # NoUrl
        THEN [revokeObjectURL(h1, h1.lastCompressedUrl) EXCEPT !.lastCompressedUrl = NoUrl]
        ELSE h1
      ELSE
        IF h1.lastDecompressedUrl # NoUrl
        THEN [revokeObjectURL(h1, h1.lastDecompressedUrl) EXCEPT !.lastDecompressedUrl = NoUrl]
        ELSE h1

handleCompressMessage(h, m) ==
  IF IsError(m) THEN stopProgressTracking(h, "compress")
  ELSE IF IsProgress(m) THEN updateProgress(h, "compress", m.progress)
  ELSE IF IsComplete(m) THEN
    LET h1 == IF h.lastCompressedUrl # NoUrl
              THEN revokeObjectURL(h, h.lastCompressedUrl) ELSE h
        h2 == createObjectURL(h1)
        h3 == stopProgressTracking([h2 EXCEPT !.lastCompressedUrl = h2.urlsCreated],
                                   "compress")
    IN  [h3 EXCEPT !.download.compress =
           [href |-> h2.urlsCreated, from |-> h.currentFileName,
            suffix |-> "_comprimido.hs6d", shown |-> TRUE]]
  ELSE h

handleDecompressMessage(h, m) ==
  IF IsError(m) THEN stopProgressTracking(h, "decompress")
  ELSE IF IsProgress(m) THEN updateProgress(h, "decompress", m.progress)
  ELSE IF IsComplete(m) THEN
    LET h1 == IF h.lastDecompressedUrl # NoUrl
              THEN revokeObjectURL(h, h.lastDecompressedUrl) ELSE h
        h2 == createObjectURL(h1)
        h3 == stopProgressTracking([h2 EXCEPT !.lastDecompressedUrl = h2.urlsCreated],
                                   "decompress")
    IN  [h3 EXCEPT !.download.decompress =
           [href |-> h2.urlsCreated, from |-> h.currentFileName,
            suffix |-> "", shown |-> TRUE]]
  ELSE h

NON_COMPRESSIBLE ==
  {"mp4", "jpg", "jpeg", "png", "gif", "zip", "rar", "7z", "xlsx", "pdf"}
shouldCompressFile(filename) == filename.ext \notin NON_COMPRESSIBLE

maxSize(performanceProfile) ==
  IF performanceProfile = "low-end" THEN 50 * 1024 * 1024 ELSE 200 * 1024 * 1024

(***************************************************************************)
(* The page: what the user selects and what the environment answers        *)
(***************************************************************************)
MaxStarts == 2     \* how many times the start buttons are pressed

Profiles == {"low-end", "high-end"}

HostCompressFiles ==
  { [name |-> [stem |-> "riego", ext |-> "csv"], data |-> Bytes(<< 65 >>)],
    [name |-> [stem |-> "silo", ext |-> "log"], data |-> Run(0, MAX_MOBILE_SIZE + 1)],
    [name |-> [stem |-> "foto", ext |-> "jpg"], data |-> Bytes(<< 0, 1 >>)] }

HostDecompressFiles ==
  { [name |-> [stem |-> "riego_comprimido", ext |-> "hs6d"],
     data |-> MakeContainer(MAGIC, 1, 4, crc32(Bytes(<< 65 >>)), Bytes(<< 65 >>))],
    [name |-> [stem |-> "corto", ext |-> "hs6d"], data |-> Bytes(<< 72 >>)],
    [name |-> [stem |-> "lluvia", ext |-> "hs6d"],
     data |-> MakeContainer(MAGIC, 2, 4, crc32(Bytes(<< 65, 200 >>)),
                            Bytes(<< 65, 200 >>))],
    [name |-> [stem |-> "notas", ext |-> "txt"], data |-> EmptyBlock] }

Pressed ==
  /\ starts < MaxStarts
  /\ starts' = starts + 1

startCompression ==
  \E file \in HostCompressFiles, performanceProfile \in Profiles, proceed \in BOOLEAN :
    LET h0       == [host EXCEPT !.currentFileName = file.name]
        fileSize == BLen(file.data)
    IN  /\ Pressed
        /\ IF ~shouldCompressFile(file.name) /\ ~proceed THEN
             host' = h0 /\ UNCHANGED reading
           ELSE IF fileSize > maxSize(performanceProfile) THEN
             host' = h0 /\ UNCHANGED reading
           ELSE
             /\ host' = startProgressTracking(
                          [resetProgress(h0, "compress") EXCEPT !.compressFileSize = fileSize],
                          "compress")
             /\ reading' = [reading EXCEPT !.compress =
                              Append(@, [file |-> file, fileSize |-> fileSize])]
        /\ UNCHANGED << inbox, workerVars, classifierVars >>

\* reader.onload of a compression: the request goes to the worker, whose
\* messages come back in order
compressReaderOnLoad ==
  /\ reading.compress # << >>
  /\ \E structured \in BOOLEAN, fault \in Faults :
       LET r == Head(reading.compress) IN
       \E stream \in EncStreams(BLen(r.file.data)) :
         LET req == [data |-> r.file.data, fileName |-> host.currentFileName,
                     fileSize |-> r.fileSize, structured |-> structured]
             run == CompressRun(req, [fault |-> fault, stream |-> stream])
         IN  inbox' = [inbox EXCEPT !.compress = @ \o run.msgs]
  /\ reading' = [reading EXCEPT !.compress = Tail(@)]
  /\ UNCHANGED << host, starts, workerVars, classifierVars >>

compressReaderOnError ==
  /\ reading.compress # << >>
  /\ reading' = [reading EXCEPT !.compress = Tail(@)]
  /\ host' = stopProgressTracking(host, "compress")
  /\ UNCHANGED << inbox, starts, workerVars, classifierVars >>

compressWorkerOnMessage ==
  /\ inbox.compress # << >>
  /\ host' = handleCompressMessage(host, Head(inbox.compress))
  /\ inbox' = [inbox EXCEPT !.compress = Tail(@)]
  /\ UNCHANGED << reading, starts, workerVars, classifierVars >>

startDecompression ==
  \E file \in HostDecompressFiles :
    LET h0       == [host EXCEPT !.currentFileName = file.name]
        fileSize == BLen(file.data)
    IN  /\ Pressed
        /\ IF file.name.ext # "hs6d" THEN
             host' = h0 /\ UNCHANGED reading
           ELSE
             /\ host' = startProgressTracking(resetProgress(h0, "decompress"),
                                              "decompress")
             /\ reading' = [reading EXCEPT !.decompress =
                              Append(@, [file |-> file, fileSize |-> fileSize])]
        /\ UNCHANGED << inbox, workerVars, classifierVars >>

decompressReaderOnLoad ==
  /\ reading.decompress # << >>
  /\ \E dec \in EngineOutcomes, inv \in EngineOutcomes :
       LET r   == Head(reading.decompress)
           req == [data |-> r.file.data, fileName |-> host.currentFileName,
                   fileSize |-> r.fileSize]
           run == DecompressRun(req, [dec |-> dec, inv |-> inv], Memo)
       IN  inbox' = [inbox EXCEPT !.decompress = @ \o run.msgs]
  /\ reading' = [reading EXCEPT !.decompress = Tail(@)]
  /\ UNCHANGED << host, starts, workerVars, classifierVars >>

decompressReaderOnError ==
  /\ reading.decompress # << >>
  /\ reading' = [reading EXCEPT !.decompress = Tail(@)]
  /\ host' = stopProgressTracking(host, "decompress")
  /\ UNCHANGED << inbox, starts, workerVars, classifierVars >>

decompressWorkerOnMessage ==
  /\ inbox.decompress # << >>
  /\ host' = handleDecompressMessage(host, Head(inbox.decompress))
  /\ inbox' = [inbox EXCEPT !.decompress = Tail(@)]
  /\ UNCHANGED << reading, starts, workerVars, classifierVars >>

HostNext ==
  \/ startCompression
  \/ compressReaderOnLoad
  \/ compressReaderOnError
  \/ compressWorkerOnMessage
  \/ startDecompression
  \/ decompressReaderOnLoad
  \/ decompressReaderOnError
  \/ decompressWorkerOnMessage

HostSpec == Init /\ [][HostNext]_vars

\* a request of this direction was sent and its terminal message is not
\* handled yet
InFlight(type) == inbox[type] # << >>

CompressSide ==
  startCompression \/ compressReaderOnLoad \/ compressReaderOnError
  \/ compressWorkerOnMessage
DecompressSide ==
  startDecompression \/ decompressReaderOnLoad \/ decompressReaderOnError
  \/ decompressWorkerOnMessage

(***************************************************************************)
(* Reading a run                                                           *)
(***************************************************************************)
Ran(w) == worker = w /\ posted # << >>
Terminal == posted[Len(posted)]
Called(name) == \E i \in DOMAIN calls : calls[i] = name
Delivered == \E i \in DOMAIN posted : IsComplete(posted[i])
CarriesBlock(m) == "compressed" \in DOMAIN m \/ "decompressed" \in DOMAIN m

\* the fields of a file read at the offsets of the container format
StoredMagicOk(d) == BLen(d) >= 4 /\ Explicit(Slice(d, 0, 4)) = MagicBytes
StoredSize(d) == WordToInt(BytesWord(Explicit(Slice(d, 4, 8))))
StoredFlags(d) == At(d, 8)
StoredChecksum(d) == BytesWord(Explicit(Slice(d, 9, 13)))
StoredPayload(d) == Slice(d, CONTAINER_HEADER, BLen(d))
StoredRaw(d) == ((StoredFlags(d) \div 4) % 2) = 1

\* the request is what the host sends: fileSize is the length of the block
HonestRequest == request.fileSize = BLen(request.data)

\* flags & 1, flags & 2, flags & 4
TransformBit(flags) == (flags % 2) = 1
DegenerateBit(flags) == ((flags \div 2) % 2) = 1
RawBit(flags) == ((flags \div 4) % 2) = 1

\* the fractions of the progress messages among msgs, in order
RECURSIVE Fractions(_)
Fractions(msgs) ==
  IF msgs = << >> THEN << >>
  ELSE (IF IsProgress(Head(msgs)) THEN << Head(msgs).progress >> ELSE << >>)
       \o Fractions(Tail(msgs))

\* every fraction lies in [0, 1] and none is below the one before it
NonDecreasing(fractions) ==
  /\ \A i \in DOMAIN fractions : fractions[i] >= 0 /\ fractions[i] <= 100
  /\ \A i \in 1..(Len(fractions) - 1) : fractions[i] <= fractions[i + 1]

\* the block a valid container makes decompress rebuild from data: data cut
\* to the stored size when it is longer
Clamped(data, size) == IF BLen(data) > size THEN Slice(data, 0, size) ELSE data
(***************************************************************************)
(* The page by itself: its handlers take every answer the message protocol *)
(* of the workers allows, the run's own messages or a run that ends with   *)
(* 'complete'.                                                             *)
(***************************************************************************)
\* the 'complete' message of the compress handler
CompressComplete(req, finalOutput) ==
  [type |-> "complete", compressed |-> finalOutput,
   originalSize |-> BLen(req.data), compressedSize |-> BLen(finalOutput),
   fileName |-> req.fileName]

\* the answers to a compress request: the messages of the run, and for a
\* block the worker accepts a run that ends with the block stored raw
CompressAnswers(req, run) ==
  { run.msgs }
  \cup (IF run.locals.reached
        THEN { << reportProgress(5), reportProgress(100),
                  CompressComplete(req, MakeContainer(MAGIC, BLen(req.data), 4,
                                                      crc32(req.data), req.data)) >> }
        ELSE { })

\* the answers to a decompress request: the messages of the run, and for a
\* valid raw container a run that ends with its payload
DecompressAnswers(req, run) ==
  { run.msgs }
  \cup (IF req.data \in ValidContainers /\ StoredRaw(req.data)
        THEN { << reportProgress(5), reportProgress(100),
                  DecompressComplete(req.data,
                     Clamped(StoredPayload(req.data), StoredSize(req.data)),
                     req.fileName) >> }
        ELSE { })

compressWorkerAnswers ==
  /\ reading.compress # << >>
  /\ LET r   == Head(reading.compress)
         req == [data |-> r.file.data, fileName |-> host.currentFileName,
                 fileSize |-> r.fileSize, structured |-> FALSE]
         run == CompressRun(req, [fault |-> "none", stream |-> Run(170, 1)])
     IN  \E answer \in CompressAnswers(req, run) :
           inbox' = [inbox EXCEPT !.compress = @ \o answer]
  /\ reading' = [reading EXCEPT !.compress = Tail(@)]
  /\ UNCHANGED << host, starts, workerVars, classifierVars >>

decompressWorkerAnswers ==
  /\ reading.decompress # << >>
  /\ LET r       == Head(reading.decompress)
         req     == [data |-> r.file.data, fileName |-> host.currentFileName,
                     fileSize |-> r.fileSize]
         refused == [threw |-> TRUE, value |-> EmptyBlock]
         run     == DecompressRun(req, [dec |-> refused, inv |-> refused], Memo)
     IN  \E answer \in DecompressAnswers(req, run) :
           inbox' = [inbox EXCEPT !.decompress = @ \o answer]
  /\ reading' = [reading EXCEPT !.decompress = Tail(@)]
  /\ UNCHANGED << host, starts, workerVars, classifierVars >>

PageNext ==
  \/ startCompression
  \/ compressWorkerAnswers
  \/ compressReaderOnError
  \/ compressWorkerOnMessage
  \/ startDecompression
  \/ decompressWorkerAnswers
  \/ decompressReaderOnError
  \/ decompressWorkerOnMessage

PageSpec == Init /\ [][PageNext]_vars

\* the file whose compression, or decompression, a 'complete' message
\* reports: the selectable files of one direction differ in length
CompressedFile(m) ==
  CHOOSE f \in HostCompressFiles : BLen(f.data) = m.originalSize
DecompressedFile(m) ==
  CHOOSE f \in HostDecompressFiles : BLen(f.data) = m.compressedSize

(***************************************************************************)
(* Claims                                                                  *)
(***************************************************************************)

\* C1: round trip.  Every block within the size ceiling that the host sends
\* to the compress worker (the engines not failing) ends in a 'complete'
\* message with a container, and that container given to the decompress
\* worker ends in a 'complete' message whose block is the original block.
C1_RoundTrip ==
  /\ (Ran("compress") /\ HonestRequest /\ BLen(request.data) <= MAX_MOBILE_SIZE
      /\ locals.reached)
       => IsComplete(Terminal)
  /\ (Ran("decompress") /\ origin.known)
       => (IsComplete(Terminal) /\ Terminal.decompressed = origin.block)

\* C2: integrity detection.  A decompression of a container with one bit of
\* its payload flipped ends with an error and delivers no block.
C2_IntegrityDetection ==
  (Ran("decompress") /\ request.data \in PayloadFlipped)
    => (IsError(Terminal) /\ ~Delivered)

C2_Witness ==
  /\ Ran("decompress")
  /\ request.data \in PayloadFlipped
  /\ StoredRaw(request.data)
  /\ IsError(Terminal)

\* C3: the checksum is verified before any decoding.  Whenever the checksum
\* stored at offsets 9..12 of the file differs from the CRC of the bytes from
\* offset 13 on, the decompression ends with an error, neither the entropy
\* decoder nor the inverse transform has been called, and no block is
\* delivered by any flag branch.
C3_ChecksumBeforeDecoding ==
  (Ran("decompress") /\ BLen(request.data) >= CONTAINER_HEADER
   /\ StoredChecksum(request.data) # crc32(StoredPayload(request.data)))
    => /\ IsError(Terminal)
       /\ ~Called("huffman.decode")
       /\ ~Called("bwt.inverse")
       /\ ~Delivered

C3_Witness ==
  /\ Ran("decompress")
  /\ request.data \in ChecksumCorrupted
  /\ StoredMagicOk(request.data)
  /\ StoredChecksum(request.data) # crc32(StoredPayload(request.data))
  /\ IsError(Terminal)

\* C5: header layout.  Every header field the compressor writes and the
\* decompressor reads lies inside the allocated header, and that header has
\* the 13 bytes of the container format.
C5_HeaderLayout ==
  \A i \in DOMAIN hdr :
    /\ hdr[i].off + hdr[i].width <= hdr[i].cap
    /\ hdr[i].cap = CONTAINER_HEADER

\* C6: format validation.  A file shorter than the header, or whose first
\* four bytes are not the magic constant, ends the decompression with an
\* error of the validation itself (size or format), before the checksum is
\* computed and before any decode stage.
C6_FormatValidation ==
  Ran("decompress") =>
    LET d == request.data IN
    /\ (BLen(d) < CONTAINER_HEADER \/ ~StoredMagicOk(d))
         => /\ IsError(Terminal)
            /\ ~Delivered
            /\ ~Called("crc32")
            /\ ~Called("huffman.decode")
            /\ ~Called("bwt.inverse")
    /\ BLen(d) < DECOMPRESS_HEADER_SIZE => Terminal.error = "TooShort"
    /\ (BLen(d) >= DECOMPRESS_HEADER_SIZE /\ ~StoredMagicOk(d))
         => Terminal.error = "BadMagic"

C6_Witness ==
  /\ Ran("decompress")
  /\ BLen(request.data) > CONTAINER_HEADER
  /\ ~StoredMagicOk(request.data)
  /\ Terminal.error = "BadMagic"

\* C7: one terminal message.  Every run of a worker posts exactly one
\* terminal message, 'complete' or an error and not both, as its last
\* message; an error message carries no block.
C7_OneTerminalMessage ==
  worker # "none" =>
    /\ posted # << >>
    /\ IsTerminal(Terminal)
    /\ ~(IsComplete(Terminal) /\ IsError(Terminal))
    /\ \A i \in 1..(Len(posted) - 1) : IsProgress(posted[i]) /\ ~IsTerminal(posted[i])
    /\ IsError(Terminal) => ~CarriesBlock(Terminal)

C7_Witness ==
  /\ Ran("compress")
  /\ Len(posted) >= 3
  /\ IsError(Terminal)
  /\ Called("huffman.encode")

\* C8: size ceiling.  Every compress request whose block is longer than
\* 50 MiB is rejected with an error before any work: no progress message,
\* no classifier or engine call, whatever fileSize the caller declares.
C8_SizeCeiling ==
  (Ran("compress") /\ BLen(request.data) > MAX_MOBILE_SIZE)
    => /\ Len(posted) = 1
       /\ IsError(Terminal)
       /\ calls = << >>

\* C9: size clamp.  When the reconstructed block (here the payload of a
\* valid raw container) and the stored originalSize differ in length, the
\* decompression still ends with 'complete', delivering the reconstruction
\* cut to the stored size and never padded.
C9_SizeClamp ==
  (Ran("decompress") /\ request.data \in ValidContainers
   /\ StoredRaw(request.data)
   /\ BLen(StoredPayload(request.data)) # StoredSize(request.data))
    => /\ IsComplete(Terminal)
       /\ Terminal.decompressed =
            Slice(StoredPayload(request.data), 0, StoredSize(request.data))
       /\ BLen(Terminal.decompressed) <= StoredSize(request.data)

\* C11: progress monotonicity.  Within one run of a worker every reported
\* fraction lies in [0, 1] and is not below the one reported before it; and
\* the stages a decompression goes through after its header (raw read,
\* entropy decoding, inverse transform) report, for every answer of the
\* engines, fractions that continue 0.05, 0.2 and lead to 1.0 without
\* decreasing.
C11_ProgressMonotone ==
  /\ worker # "none" => NonDecreasing(Fractions(posted))
  /\ (Ran("decompress") /\ BLen(request.data) >= DECOMPRESS_HEADER_SIZE) =>
        \A dec \in EngineOutcomes, inv \in EngineOutcomes :
          LET stage == DecompressDecode(
                         Slice(request.data, DECOMPRESS_HEADER_SIZE, BLen(request.data)),
                         At(request.data, 8), [dec |-> dec, inv |-> inv], Memo)
          IN  NonDecreasing(Fractions(<< reportProgress(5), reportProgress(20) >>
                                      \o stage.msgs \o << reportProgress(100) >>))

C11_Witness ==
  /\ Ran("compress")
  /\ locals.useBWT
  /\ locals.isUncompressed
  /\ Fractions(posted) = << 5, 20, 40, 60, 85 >>

\* C12: raw flag on read.  For every container whose magic and checksum are
\* right and whose raw bit is set, whatever bit0 and bit1 are, the
\* decompression calls neither the entropy decoder nor the inverse transform
\* and delivers the payload as it is, cut to the stored size if longer.
C12_RawFlagOnRead ==
  (Ran("decompress") /\ request.data \in ValidContainers
   /\ RawBit(StoredFlags(request.data)))
    => /\ ~Called("huffman.decode")
       /\ ~Called("bwt.inverse")
       /\ IsComplete(Terminal)
       /\ Terminal.decompressed =
            Clamped(StoredPayload(request.data), StoredSize(request.data))

\* C13: flag consistency on write.  In the flags a compression writes, the
\* degenerate bit is never set together with the raw bit and never together
\* with the transform bit.
C13_FlagConsistency ==
  (Ran("compress") /\ locals.reached)
    => /\ ~(DegenerateBit(locals.flags) /\ TransformBit(locals.flags))
       /\ ~(DegenerateBit(locals.flags) /\ RawBit(locals.flags))

\* C14: degenerate detection is independent of the transform decision.  The
\* flags a compression writes have the degenerate bit set exactly when the
\* block has at least 100 bytes, all equal to the first, also when the
\* classifier selects the transform.
C14_DegenerateDetection ==
  (Ran("compress") /\ locals.reached)
    => (DegenerateBit(locals.flags) <=> isAllSame(request.data))

\* C15: the degenerate flag is read before the inverse transform.  For every
\* valid container with bit1 set and bit2 clear, also with bit0 set, the
\* decompression never calls the inverse transform, neither in the run nor
\* in its decode stage applied to the payload, and it delivers the
\* representative byte replicated originalSize times.
C15_DegenerateBeforeInverse ==
  (Ran("decompress") /\ request.data \in ValidContainers
   /\ DegenerateBit(StoredFlags(request.data))
   /\ ~RawBit(StoredFlags(request.data)))
    => /\ ~Called("bwt.inverse")
       /\ \A dec \in EngineOutcomes, inv \in EngineOutcomes :
            LET stage == DecompressDecode(StoredPayload(request.data),
                           StoredFlags(request.data), [dec |-> dec, inv |-> inv], Memo)
            IN  \A i \in DOMAIN stage.calls : stage.calls[i] # "bwt.inverse"
       /\ IsComplete(Terminal)
       /\ BLen(Terminal.decompressed) = StoredSize(request.data)
       /\ \A i \in 0..(BLen(Terminal.decompressed) - 1) :
            At(Terminal.decompressed, i) = At(Terminal.decompressed, 0)

\* C16: raw fallback on write.  A compression sets the raw bit exactly when
\* the encoded length is more than 95% of the input length, and whenever it
\* sets the raw bit it delivers a container whose payload is the input
\* block, whose stored size is the input length and whose checksum is the
\* CRC of the input block.
C16_RawFallback ==
  (Ran("compress") /\ locals.reached)
    => /\ RawBit(locals.flags)
            <=> (20 * locals.encodedLength > 19 * BLen(request.data))
       /\ RawBit(locals.flags)
            => /\ locals.compressedData = request.data
               /\ IsComplete(Terminal)
               /\ StoredPayload(Terminal.compressed) = request.data
               /\ StoredSize(Terminal.compressed) = BLen(request.data)
               /\ StoredChecksum(Terminal.compressed) = crc32(request.data)

\* C17: empty input.  Compressing the empty block delivers a container that
\* stores originalSize 0 and has the raw bit or the degenerate bit set, and
\* decompressing that container delivers the empty block.
C17_EmptyInput ==
  /\ (Ran("compress") /\ request.data = EmptyBlock /\ HonestRequest
      /\ locals.reached)
       => /\ RawBit(locals.flags) \/ DegenerateBit(locals.flags)
          /\ IsComplete(Terminal)
          /\ StoredSize(Terminal.compressed) = 0
  /\ (Ran("decompress") /\ origin.known /\ origin.block = EmptyBlock)
       => (IsComplete(Terminal) /\ Terminal.decompressed = EmptyBlock)

\* C18: degenerate shortcut on write.  When a compression takes the
\* degenerate path, the block handed to the entropy coder is one
\* representative byte, the first byte of the input.
C18_DegenerateShortcut ==
  (Ran("compress") /\ locals.reached /\ locals.isSpecialCase)
    => /\ BLen(locals.source) = 1
       /\ At(locals.source, 0) = At(request.data, 0)

\* C19: classification is bounded to a prefix.  For a block the
\* structured-text detector does not recognise, shouldUseBWT returns true
\* exactly when more than 85% of the first min(len, 10000) bytes are text
\* bytes; it returns the same for the block as for its first 10000 bytes
\* alone; and it returns a decision (false) for the empty block.
C19_Classification ==
  (sample.called /\ ~sample.structured) =>
    LET len        == sample.text + sample.other + sample.tailLength
        sampleSize == Min(len, SAMPLE_SIZE)
        inText     == Min(sample.text, sampleSize)
        inTail     == Max(0, sampleSize - sample.text - sample.other)
        textBytes  == inText + (IF sample.tail = 65 THEN inTail ELSE 0)
    IN  /\ decision \in BOOLEAN
        /\ decision <=> (100 * textBytes > 85 * sampleSize)
        /\ decision = shouldUseBWT(Slice(SampleBlock(sample), 0, SAMPLE_SIZE), FALSE)
        /\ len = 0 => ~decision

C19_Witness ==
  /\ sample.called
  /\ ~sample.structured
  /\ sample.text + sample.other = SAMPLE_SIZE
  /\ 100 * sample.text = 85 * SAMPLE_SIZE
  /\ sample.tail = 65 /\ sample.tailLength = SAMPLE_SIZE
  /\ ~decision

\* C20: progress tracking of the two directions is independent.  While a
\* decompression is in flight and its timer runs, no step of the compression
\* side (start, file read or failed, message handled) clears or replaces that
\* timer; and the same with the directions exchanged.
C20_IndependentTracking ==
  [][ /\ (CompressSide /\ InFlight("decompress")
          /\ host.decompressInterval \in host.intervals)
           => /\ host'.decompressInterval = host.decompressInterval
              /\ host.decompressInterval \in host'.intervals
      /\ (DecompressSide /\ InFlight("compress")
          /\ host.compressInterval \in host.intervals)
           => /\ host'.compressInterval = host.compressInterval
              /\ host.compressInterval \in host'.intervals ]_vars

\* C23: host and worker agree on the size ceiling.  No request the page has
\* sent to the compress worker, having passed the page's own size check, is
\* answered with the worker's too-large error.
C23_SizeCeilingAgreement ==
  \A i \in DOMAIN inbox.compress :
    IsError(inbox.compress[i]) => inbox.compress[i].error # "TooLarge"

\* C24: progress display scale.  When the page handles a progress message
\* with fraction p, the percentage it displays for that direction is 100 p
\* (fractions are kept in hundredths, so the number itself).
C24_ProgressDisplayScale ==
  [][ /\ (compressWorkerOnMessage /\ IsProgress(Head(inbox.compress)))
           => host'.percentage.compress = Head(inbox.compress).progress
      /\ (decompressWorkerOnMessage /\ IsProgress(Head(inbox.decompress)))
           => host'.percentage.decompress = Head(inbox.decompress).progress ]_vars

\* C21: result attribution.  When the page handles a 'complete' message,
\* the download it offers is named after the file whose compression, or
\* decompression, produced that message, whatever was started in between.
C21_ResultAttribution ==
  [][ /\ (compressWorkerOnMessage /\ IsComplete(Head(inbox.compress)))
           => /\ host'.download.compress.shown
              /\ host'.download.compress.from =
                   CompressedFile(Head(inbox.compress)).name
      /\ (decompressWorkerOnMessage /\ IsComplete(Head(inbox.decompress)))
           => /\ host'.download.decompress.shown
              /\ host'.download.decompress.from =
                   DecompressedFile(Head(inbox.decompress)).name ]_vars

\* C22: object-URL lifecycle.  The unrevoked object URLs are exactly the
\* non-null ones among lastCompressedUrl and lastDecompressedUrl, one per
\* direction at most, and every other URL ever created has been revoked
\* exactly once.
C22_ObjectUrlLifecycle ==
  /\ host.urls = {host.lastCompressedUrl, host.lastDecompressedUrl} \ {NoUrl}
  /\ host.lastCompressedUrl # NoUrl
       => host.lastCompressedUrl # host.lastDecompressedUrl
  /\ \A url \in 1..host.urlsCreated :
       Cardinality({i \in DOMAIN host.revoked : host.revoked[i] = url})
         = (IF url \in host.urls THEN 0 ELSE 1)
  /\ \A i \in DOMAIN host.revoked : host.revoked[i] \in 1..host.urlsCreated

C22_Witness ==
  /\ host.urlsCreated >= 2
  /\ host.revoked # << >>
  /\ host.lastCompressedUrl \in host.urls
  /\ host.download.compress.shown
====
